---- MODULE Spec2Model ----
(***************************************************************************)
(* Idempotent newsletter publishing and the transactional-outbox delivery  *)
(* worker of zero2prod-axum.                                               *)
(*                                                                         *)
(* The relational store is PostgreSQL at READ COMMITTED:                   *)
(*  - rows written inside a transaction are invisible to every other       *)
(*    connection until the transaction commits, and vanish on rollback;    *)
(*  - INSERT ... ON CONFLICT DO NOTHING waits while another transaction    *)
(*    holds an uncommitted row with the same key, then inserts (the other  *)
(*    rolled back) or does nothing (the other committed);                  *)
(*  - statements run on the pool (not on a transaction) commit at once;    *)
(*  - SELECT ... FOR UPDATE SKIP LOCKED locks the row it returns until the *)
(*    transaction ends and never returns a row another transaction locks.  *)
(***************************************************************************)
EXTENDS Integers, Sequences, FiniteSets, TLC

\* ---------------------------------------------------------------- bounds
NumReqs == 2        \* publish requests in one behaviour
NumWorkers == 2     \* concurrent worker loops
MaxTicks == 3       \* clock advances in one behaviour
MaxFaults == 1      \* storage errors hitting the workers in one behaviour

\* ------------------------------------------------------ program constants
TTL_HOURS == 24
EMPTY_QUEUE_POLL_INTERVAL_SECS == 10
ERROR_RETRY_DELAY_SECS == 1
REQUEST_TIMEOUT == 408
SEE_OTHER == 303
INTERNAL_SERVER_ERROR == 500
UNAUTHORIZED == 401

\* -------------------------------------------------------------- universes
TickHours == 12
Reqs == 1..NumReqs
Workers == 1..NumWorkers
Owners == {"u1", "u2"}
Tokens == {"k1"}
MalformedTokens == {""}
NoUser == "nobody"
Sessions == Owners \cup {NoUser}
Emails == {"a@x.com", "bad"}
NoRow == [absent |-> TRUE]
NoItem == <<>>
NoResp == [status |-> 0, headers |-> <<>>, body |-> ""]
NoToken == <<>>
NoMail ==
  [recipient |-> "", subject |-> <<>>, html_content |-> <<>>,
   text_content |-> <<>>]

\* SubscriberEmailAddress::parse accepts the well-formed addresses only.
ValidEmail(e) == e = "a@x.com"

\* ---------------------------------------------------------------- responses
\* see_other("/admin/newsletters"): the response publish_newsletter builds.
SeeOther ==
  [status |-> SEE_OTHER,
   headers |-> << <<"location", "/admin/newsletters">> >>,
   body |-> ""]

\* Responses a write-type handler may hand to save_response.
Responses ==
  { SeeOther,
    [status |-> 200,
     headers |-> << <<"content-type", "application/json">> >>,
     body |-> "{}"],
    [status |-> 200,
     headers |-> << <<"set-cookie", "a=1">>, <<"set-cookie", "b=2">> >>,
     body |-> "ok"],
    [status |-> REQUEST_TIMEOUT, headers |-> <<>>, body |-> "late"] }

\* `status.as_u16() as i16`, and back with try_into::<u16>() / from_u16.
ToI16(n) == IF n % 65536 >= 32768 THEN (n % 65536) - 65536 ELSE n % 65536
StatusFromI16Ok(n) == n >= 100 /\ n <= 999

\* save_response: one HeaderPairRecord per (name, value) of headers.iter().
HeaderPairs(headers) ==
  [i \in 1..Len(headers) |-> [name |-> headers[i][1], value |-> headers[i][2]]]

\* HeaderMap::insert: the value replaces every value stored under the name.
HeaderMapInsert(hs, name, value) ==
  IF \E i \in 1..Len(hs) : hs[i][1] = name
    THEN LET first == CHOOSE i \in 1..Len(hs) :
                        /\ hs[i][1] = name
                        /\ \A j \in 1..(i - 1) : hs[j][1] # name
             keep == SelectSeq([i \in 1..Len(hs) |-> <<i, hs[i]>>],
                               LAMBDA p : p[2][1] # name \/ p[1] = first)
         IN [i \in 1..Len(keep) |->
               IF keep[i][1] = first THEN <<name, value>> ELSE keep[i][2]]
    ELSE Append(hs, <<name, value>>)

RECURSIVE LoadHeaders(_, _)
LoadHeaders(pairs, acc) ==
  IF pairs = <<>> THEN acc
  ELSE LoadHeaders(Tail(pairs),
                   HeaderMapInsert(acc, Head(pairs).name, Head(pairs).value))

\* HeaderMap::extend, as IntoResponseParts for HeaderMap applies it: the first
\* value of a name replaces what the map holds under it, the further values
\* of the same name are appended.
RECURSIVE HeaderMapExtend(_, _, _)
HeaderMapExtend(base, hs, i) ==
  IF i > Len(hs) THEN base
  ELSE IF i > 1 /\ hs[i - 1][1] = hs[i][1]
    THEN HeaderMapExtend(Append(base, hs[i]), hs, i + 1)
    ELSE HeaderMapExtend(HeaderMapInsert(base, hs[i][1], hs[i][2]), hs, i + 1)

\* (status, headers, bytes).into_response(): a body of bytes comes with
\* content-type application/octet-stream unless the headers name their own.
IntoResponse(status, headers, body) ==
  [status |-> status,
   headers |-> HeaderMapExtend(
                 << <<"content-type", "application/octet-stream">> >>,
                 headers, 1),
   body |-> body]

\* The row columns save_response writes.
SavedColumns(resp) ==
  [status |-> ToI16(resp.status),
   headers |-> HeaderPairs(resp.headers),
   body |-> resp.body]

\* The response get_saved_response rebuilds from an unexpired row.
LoadResponse(row) ==
  IntoResponse(row.status, LoadHeaders(row.headers, <<>>), row.body)

\* (StatusCode::REQUEST_TIMEOUT, "").into_response(): what get_saved_response
\* returns after deleting an expired row.
ExpiredSentinel ==
  [status |-> REQUEST_TIMEOUT,
   headers |-> << <<"content-type", "text/plain; charset=utf-8">> >>,
   body |-> ""]

\* Mutant: the boundary age counts as expired.
ExpiredInclusive(created_at, t) == created_at <= t - TTL_HOURS

\* Mutant: the comparison is turned around.
ExpiredReversed(created_at, t) == created_at > t - TTL_HOURS

\* `r.created_at < now - Duration::hours(24)`
Expired(created_at, t) == created_at < t - TTL_HOURS

\* ------------------------------------------------------------------ state
VARIABLES
  now,      \* the clock, in hours
  idem,     \* committed rows of table idempotency, by <<user_id, key>>
  issues,   \* committed newsletter_issues (ids)
  queue,    \* committed rows of issue_delivery_queue: <<issue_id, email>>
  subs,     \* table subscriptions: status by email
  req,      \* the publish requests
  wrk,      \* the worker loops
  sends,    \* send_email invocations per queue item
  claims,   \* times a queue item was returned by dequeue_task
  faults,   \* storage errors the workers have hit so far
  redo      \* per queue item: rollbacks of a worker transaction after its send

vars == <<now, idem, issues, queue, subs, req, wrk, sends, claims, faults, redo>>

Keys == Owners \X Tokens
Items == Reqs \X Emails

\* A request: pc, the <<user_id, idempotency_key>> it carries, the response its
\* business logic builds, its transaction (created: start time, hasRow: it
\* holds an uncommitted idempotency row, enq: the recipients it enqueued), how
\* try_processing handed the transaction out (via), its outcome (out, got),
\* and whether another request with the same key was in flight with it (raced).
IdleReq ==
  [pc |-> "idle", key |-> <<"u1", "k1">>, resp |-> NoResp, created |-> 0,
   hasRow |-> FALSE, via |-> "none", enq |-> {}, out |-> "none",
   got |-> NoResp, raced |-> FALSE]

\* A worker loop: pc, the queue row its transaction holds (item), what became
\* of the send for it (sent), the EmailData it passed to send_email (mail),
\* the sleep it is in (secs), and the task its last try_execute_task completed
\* with TaskCompleted (did: the item and its send).
IdleWorker ==
  [pc |-> "dequeue", item |-> NoItem, sent |-> "none", secs |-> 0,
   did |-> <<>>, mail |-> NoMail]

Init ==
  /\ now = 0
  /\ idem = [k \in Keys |-> NoRow]
  /\ issues = {}
  /\ queue = {}
  /\ subs \in [Emails -> {"absent", "confirmed"}]
  /\ \A e \in Emails : ValidEmail(e) => subs[e] = "absent"
  /\ req = [r \in Reqs |-> IdleReq]
  /\ wrk = [w \in Workers |-> IdleWorker]
  /\ sends = [it \in Items |-> 0]
  /\ claims = [it \in Items |-> 0]
  /\ faults = 0
  /\ redo = [it \in Items |-> 0]

\* ------------------------------------------------------------------ clock
Tick ==
  /\ now + TickHours <= MaxTicks * TickHours
  /\ now' = now + TickHours
  /\ UNCHANGED <<idem, issues, queue, subs, req, wrk, sends, claims, faults, redo>>

\* ------------------------------------------------------------ subscribers
\* POST /subscriptions: a new row, pending confirmation (valid addresses only).
Subscribe(e) ==
  /\ ValidEmail(e)
  /\ subs[e] = "absent"
  /\ subs' = [subs EXCEPT ![e] = "pending_confirmation"]
  /\ UNCHANGED <<now, idem, issues, queue, req, wrk, sends, claims, faults, redo>>

\* confirm_subscriber: UPDATE subscriptions SET status = 'confirmed'.
Confirm(e) ==
  /\ subs[e] = "pending_confirmation"
  /\ subs' = [subs EXCEPT ![e] = "confirmed"]
  /\ UNCHANGED <<now, idem, issues, queue, req, wrk, sends, claims, faults, redo>>

\* delete_subscriber: DELETE FROM subscriptions.
Unsubscribe(e) ==
  /\ ValidEmail(e)
  /\ subs[e] # "absent"
  /\ subs' = [subs EXCEPT ![e] = "absent"]
  /\ UNCHANGED <<now, idem, issues, queue, req, wrk, sends, claims, faults, redo>>

\* ------------------------------------------------- publish_newsletter
\* The request is being handled: its transaction is open.
InFlight(q) == req[q].pc \notin {"idle", "done"}

\* Mutant: the insert neither waits for nor sees a concurrent uncommitted row.
NoWaitOnInsert(r, k) == FALSE

\* Another transaction holds an uncommitted idempotency row with this key.
RowHeldByOther(r, k) ==
  \E q \in Reqs \ {r} : req[q].hasRow /\ req[q].key = k

\* The request arrives; pool.begin() opens its transaction (now() is the
\* transaction's start time).  RS: the responses its business logic may build.
Start(r, RS) ==
  /\ req[r].pc = "idle"
  /\ \E o \in Owners, t \in Tokens, R \in RS :
       LET k == <<o, t>>
           racing == {q \in Reqs \ {r} : InFlight(q) /\ req[q].key = k}
       IN req' = [q \in Reqs |->
                   IF q = r
                     THEN [req[r] EXCEPT !.pc = "insert", !.key = k, !.resp = R,
                                         !.created = now,
                                         !.raced = racing # {}]
                   ELSE IF q \in racing
                     THEN [req[q] EXCEPT !.raced = TRUE]
                   ELSE req[q]]
  /\ UNCHANGED <<now, idem, issues, queue, subs, wrk, sends, claims, faults, redo>>

StartPublish(r) == Start(r, {SeeOther})

\* IdempotencyKey::try_from accepts a token that is non-empty and of the
\* allowed format.
IdempotencyKeyOk(t) == t \notin MalformedTokens

\* PublishError::UnexpectedError as a response: 500, no header, no body.
UnexpectedErrorResponse ==
  [status |-> INTERNAL_SERVER_ERROR, headers |-> <<>>, body |-> ""]

\* Mutant: the token is not validated and the request goes on to
\* try_processing.
RejectNever(r) == Start(r, {SeeOther})

\* publish_newsletter with a token IdempotencyKey::try_from refuses: `?`
\* returns the error, converted into PublishError::UnexpectedError, before
\* try_processing is called.
Reject(r) ==
  /\ req[r].pc = "idle"
  /\ \E t \in MalformedTokens :
       /\ ~IdempotencyKeyOk(t)
       /\ req' = [req EXCEPT ![r] = [@ EXCEPT !.pc = "done",
                                              !.out = "rejected",
                                              !.got = UnexpectedErrorResponse]]
  /\ UNCHANGED <<now, idem, issues, queue, subs, wrk, sends, claims, faults, redo>>

StartCommand(r) == Start(r, Responses)

\* UserId::from_request_parts: Ok when the session holds a user id.
Authenticated(s) == s \in Owners

\* What require_auth answers when the extraction fails: 401 with a JSON body.
UnauthorizedResponse ==
  [status |-> UNAUTHORIZED,
   headers |-> << <<"content-type", "application/json">> >>,
   body |-> "{success:false,error:Authentication required}"]

\* Mutant: the /admin routes carry no require_auth layer and the handler runs.
UnauthorizedRunsHandler(r) == Start(r, {SeeOther})

\* require_auth on a request whose session holds no user id: the response is
\* built in the layer and next.run, hence the handler, is never called.
Unauthorized(r) ==
  /\ req[r].pc = "idle"
  /\ \E s \in Sessions :
       /\ ~Authenticated(s)
       /\ req' = [req EXCEPT ![r] = [@ EXCEPT !.pc = "done",
                                              !.out = "unauthorized",
                                              !.got = UnauthorizedResponse]]
  /\ UNCHANGED <<now, idem, issues, queue, subs, wrk, sends, claims, faults, redo>>

\* Mutant: the conflict is on the key alone, whoever the user is.
InsertConflictsOnToken(k) == \A o \in Owners : idem[<<o, k[2]>>] = NoRow

\* Mutant: a plain INSERT with no conflict clause on a table with no unique
\* key: the row is always added.
InsertWithoutConflict(k) == TRUE

\* INSERT INTO idempotency ... ON CONFLICT DO NOTHING, then the branch on
\* rows_affected().
InsertAddsRow(k) == idem[k] = NoRow

Insert(r) ==
  /\ req[r].pc = "insert"
  /\ ~RowHeldByOther(r, req[r].key)
  /\ req' = [req EXCEPT ![r] =
       IF InsertAddsRow(req[r].key)
         THEN [@ EXCEPT !.pc = "process", !.hasRow = TRUE, !.via = "insert"]
         ELSE [@ EXCEPT !.pc = "fetch"]]
  /\ UNCHANGED <<now, idem, issues, queue, subs, wrk, sends, claims, faults, redo>>

\* The action try_processing takes on what get_saved_response returned.
\*   "start": NextAction::StartProcessing, "saved": ReturnSavedResponse
NextActionOf(saved) ==
  IF saved.status = REQUEST_TIMEOUT THEN "start" ELSE "saved"

\* Mutant: a key with no committed row makes try_processing fail.
FetchSavedErrOnNone(r) ==
  /\ req[r].pc = "fetch"
  /\ LET row == idem[req[r].key] IN
       req' = [req EXCEPT ![r] =
         IF row = NoRow
           THEN [@ EXCEPT !.pc = "done", !.out = "error", !.created = 0,
                          !.resp = NoResp]
         ELSE IF Expired(row.created_at, now)
           THEN [@ EXCEPT !.pc = "delete"]
         ELSE IF ~StatusFromI16Ok(row.status)
           THEN [@ EXCEPT !.pc = "done", !.out = "error", !.created = 0,
                          !.resp = NoResp]
         ELSE IF NextActionOf(LoadResponse(row)) = "start"
           THEN [@ EXCEPT !.pc = "process", !.via = "expired"]
         ELSE [@ EXCEPT !.pc = "done", !.out = "replay", !.created = 0,
                        !.resp = NoResp, !.got = LoadResponse(row)]]
  /\ UNCHANGED <<now, idem, issues, queue, subs, wrk, sends, claims, faults, redo>>

\* Mutant: returning the saved response refreshes the record's created_at
\* (a sliding TTL), with a statement on the pool.
FetchSavedRefreshes(r) ==
  /\ req[r].pc = "fetch"
  /\ LET row == idem[req[r].key]
         replays == /\ row # NoRow
                    /\ ~Expired(row.created_at, now)
                    /\ StatusFromI16Ok(row.status)
                    /\ NextActionOf(LoadResponse(row)) = "saved"
     IN /\ req' = [req EXCEPT ![r] =
              IF row = NoRow
                THEN [@ EXCEPT !.pc = "process", !.via = "notfound"]
              ELSE IF Expired(row.created_at, now)
                THEN [@ EXCEPT !.pc = "delete"]
              ELSE IF ~StatusFromI16Ok(row.status)
                THEN [@ EXCEPT !.pc = "done", !.out = "error", !.created = 0,
                               !.resp = NoResp]
              ELSE IF NextActionOf(LoadResponse(row)) = "start"
                THEN [@ EXCEPT !.pc = "process", !.via = "expired"]
              ELSE [@ EXCEPT !.pc = "done", !.out = "replay", !.created = 0,
                             !.resp = NoResp, !.got = LoadResponse(row)]]
        /\ idem' = IF replays
                     THEN [idem EXCEPT ![req[r].key].created_at = now]
                     ELSE idem
  /\ UNCHANGED <<now, issues, queue, subs, wrk, sends, claims, faults, redo>>

\* get_saved_response, up to and including the expiry test: the SELECT on the
\* pool and the rebuilding of the response.
FetchSaved(r) ==
  /\ req[r].pc = "fetch"
  /\ LET row == idem[req[r].key] IN
       req' = [req EXCEPT ![r] =
         IF row = NoRow
           THEN [@ EXCEPT !.pc = "process", !.via = "notfound"]
         ELSE IF Expired(row.created_at, now)
           THEN [@ EXCEPT !.pc = "delete"]
         ELSE IF ~StatusFromI16Ok(row.status)
           THEN [@ EXCEPT !.pc = "done", !.out = "error", !.created = 0,
                          !.resp = NoResp]
         ELSE IF NextActionOf(LoadResponse(row)) = "start"
           THEN [@ EXCEPT !.pc = "process", !.via = "expired"]
         ELSE [@ EXCEPT !.pc = "done", !.out = "replay", !.created = 0,
                        !.resp = NoResp, !.got = LoadResponse(row)]]
  /\ UNCHANGED <<now, idem, issues, queue, subs, wrk, sends, claims, faults, redo>>

\* delete_saved_response (on the pool), and what follows it: Err when no row
\* was deleted, else the 408 response, which try_processing turns into
\* StartProcessing.
DeleteSaved(r) ==
  /\ req[r].pc = "delete"
  /\ LET k == req[r].key IN
       IF idem[k] # NoRow
         THEN /\ idem' = [idem EXCEPT ![k] = NoRow]
              /\ NextActionOf(ExpiredSentinel) = "start"
              /\ req' = [req EXCEPT ![r] = [@ EXCEPT !.pc = "process",
                                                     !.via = "expired"]]
         ELSE /\ idem' = idem
              /\ req' = [req EXCEPT ![r] = [@ EXCEPT !.pc = "done",
                                                     !.out = "error",
                                                     !.created = 0,
                                                     !.resp = NoResp]]
  /\ UNCHANGED <<now, issues, queue, subs, wrk, sends, claims, faults, redo>>

\* Mutant: the SELECT has no WHERE clause and takes every subscriber.
AllSubscriberEmails == {e \in Emails : subs[e] # "absent"}

\* enqueue_delivery_tasks: SELECT $1, email FROM subscriptions WHERE
\* status = 'confirmed'.
ConfirmedEmails == {e \in Emails : subs[e] = "confirmed"}

\* Mutant: the issue and the queue rows are written on the pool, not on the
\* request's transaction.
BusinessWriteOnPool(r) ==
  /\ req[r].pc = "process"
  /\ req' = [req EXCEPT ![r] = [@ EXCEPT !.pc = "finalize",
                                         !.enq = ConfirmedEmails]]
  /\ issues' = issues \cup {r}
  /\ queue' = queue \cup {<<r, e>> : e \in ConfirmedEmails}
  /\ UNCHANGED <<now, idem, subs, wrk, sends, claims, faults, redo>>

\* Mutant: enqueue_delivery_tasks runs on the pool and its rows are visible at
\* once, while the issue waits for the commit of the request's transaction.
BusinessWriteEnqueuesOnPool(r) ==
  /\ req[r].pc = "process"
  /\ req' = [req EXCEPT ![r] = [@ EXCEPT !.pc = "finalize",
                                         !.enq = ConfirmedEmails]]
  /\ queue' = queue \cup {<<r, e>> : e \in ConfirmedEmails}
  /\ UNCHANGED <<now, idem, issues, subs, wrk, sends, claims, faults, redo>>

\* get_confirmed_subscribers (read only), insert_newsletter_issue and
\* enqueue_delivery_tasks, all on the request's transaction: nothing of it is
\* visible outside before the commit.  The issue's id is the request's.
BusinessWrite(r) ==
  /\ req[r].pc = "process"
  /\ req' = [req EXCEPT ![r] = [@ EXCEPT !.pc = "finalize",
                                         !.enq = ConfirmedEmails]]
  /\ UNCHANGED <<now, idem, issues, queue, subs, wrk, sends, claims, faults, redo>>

\* The idempotency row as the UPDATE of save_response leaves it.  The UPDATE
\* touches the row the transaction sees under the key: its own uncommitted one,
\* else a committed one, else none.
RowAfterUpdate(r) ==
  LET k == req[r].key
      cols == SavedColumns(req[r].resp)
  IN IF req[r].hasRow
       THEN [created_at |-> req[r].created, status |-> cols.status,
             headers |-> cols.headers, body |-> cols.body,
             orig |-> req[r].resp]
     ELSE IF idem[k] # NoRow
       THEN [created_at |-> idem[k].created_at, status |-> cols.status,
             headers |-> cols.headers, body |-> cols.body,
             orig |-> req[r].resp]
     ELSE NoRow

\* The response save_response hands back, rebuilt from parts and body bytes.
Returned(resp) == IntoResponse(resp.status, resp.headers, resp.body)

\* Mutant: the handler also delivers the issue itself, one send_email per
\* recipient, before it saves the response.
FinalizeSendsInline(r) ==
  /\ req[r].pc = "finalize"
  /\ idem' = [idem EXCEPT ![req[r].key] = RowAfterUpdate(r)]
  /\ issues' = issues \cup {r}
  /\ queue' = queue \cup {<<r, e>> : e \in req[r].enq}
  /\ sends' = [it \in DOMAIN sends |->
                 IF it[1] = r /\ it[2] \in req[r].enq
                   THEN 1 ELSE sends[it]]
  /\ req' = [req EXCEPT ![r] = [@ EXCEPT !.pc = "done", !.out = "committed",
                                         !.hasRow = FALSE, !.created = 0,
                                         !.got = Returned(req[r].resp)]]
  /\ UNCHANGED <<now, subs, wrk, claims, faults, redo>>

\* save_response: UPDATE, COMMIT, and the response handed back.
Finalize(r) ==
  /\ req[r].pc = "finalize"
  /\ idem' = [idem EXCEPT ![req[r].key] = RowAfterUpdate(r)]
  /\ issues' = issues \cup {r}
  /\ queue' = queue \cup {<<r, e>> : e \in req[r].enq}
  /\ req' = [req EXCEPT ![r] = [@ EXCEPT !.pc = "done", !.out = "committed",
                                         !.hasRow = FALSE, !.created = 0,
                                         !.got = Returned(req[r].resp)]]
  /\ UNCHANGED <<now, subs, wrk, sends, claims, faults, redo>>

\* The row the INSERT of try_processing writes: created_at set, the response
\* columns NULL.
ClaimedRow(t) ==
  [created_at |-> t, status |-> NoResp.status, headers |-> NoResp.headers,
   body |-> NoResp.body, orig |-> NoResp]

\* Mutant: on an error the transaction is committed, not rolled back, and the
\* row inserted by try_processing becomes visible without a response.
AbortCommits(r) ==
  /\ req[r].pc \in {"insert", "fetch", "delete", "process", "finalize"}
  /\ req' = [req EXCEPT ![r] = [@ EXCEPT !.pc = "done", !.out = "error",
                                         !.hasRow = FALSE,
                                         !.created = 0, !.resp = NoResp]]
  /\ idem' = IF req[r].hasRow
               THEN [idem EXCEPT ![req[r].key] = ClaimedRow(req[r].created)]
               ELSE idem
  /\ UNCHANGED <<now, issues, queue, subs, wrk, sends, claims, faults, redo>>

\* Mutant: the issue and the queue rows written before the error stay: they
\* were not written on the transaction the error rolls back.
AbortKeepsWrites(r) ==
  /\ req[r].pc \in {"insert", "fetch", "delete", "process", "finalize"}
  /\ req' = [req EXCEPT ![r] = [@ EXCEPT !.pc = "done", !.out = "error",
                                         !.hasRow = FALSE,
                                         !.created = 0, !.resp = NoResp]]
  /\ issues' = IF req[r].pc = "finalize" THEN issues \cup {r} ELSE issues
  /\ queue' = IF req[r].pc = "finalize"
                THEN queue \cup {<<r, e>> : e \in req[r].enq}
                ELSE queue
  /\ UNCHANGED <<now, idem, subs, wrk, sends, claims, faults, redo>>

\* Mutant: the request ends but its transaction is never rolled back, so the
\* uncommitted idempotency row stays in place.
AbortKeepsRow(r) ==
  /\ req[r].pc \in {"insert", "fetch", "delete", "process", "finalize"}
  /\ req' = [req EXCEPT ![r] = [@ EXCEPT !.pc = "done", !.out = "error",
                                         !.created = 0, !.resp = NoResp]]
  /\ UNCHANGED <<now, idem, issues, queue, subs, wrk, sends, claims, faults, redo>>

\* A storage error, a crash or a client disconnect before the commit: the
\* transaction is dropped, which rolls it back (enq keeps what was undone).
Abort(r) ==
  /\ req[r].pc \in {"insert", "fetch", "delete", "process", "finalize"}
  /\ req' = [req EXCEPT ![r] = [@ EXCEPT !.pc = "done", !.out = "error",
                                         !.hasRow = FALSE,
                                         !.created = 0, !.resp = NoResp]]
  /\ UNCHANGED <<now, idem, issues, queue, subs, wrk, sends, claims, faults, redo>>

\* ------------------------------------------------------- delivery worker
\* The counters sends and claims count up to MaxFaults + 2, one more than an
\* item can be claimed when each storage error undoes one claim.
CountUp(n) == IF n < MaxFaults + 2 THEN n + 1 ELSE n

\* Mutant: the row lock is given up once the email has gone out, before the
\* DELETE and the COMMIT.
LockedUntilSent ==
  {wrk[w].item : w \in {v \in Workers : wrk[v].pc = "send"}} \ {NoItem}

\* Queue rows some worker transaction holds locked.
Locked == {wrk[w].item : w \in Workers} \ {NoItem}

\* Mutant: a plain SELECT ... LIMIT 1, which returns locked rows too.
SelectableNoSkip == queue

\* Mutant: LIMIT 1 is applied before the locked rows are skipped, so the
\* select finds nothing when the first row of the table is locked.
SelectableFirstRowOnly ==
  IF queue = {} THEN {} ELSE {CHOOSE it \in queue : TRUE} \ Locked

\* The rows SELECT ... FOR UPDATE SKIP LOCKED LIMIT 1 may return.
Selectable == queue \ Locked

\* Mutant: the two delays are swapped in worker_loop: an empty queue is
\* followed by the error delay.
DequeueSleepsErrorDelay(w) ==
  /\ wrk[w].pc = "dequeue"
  /\ IF Selectable = {}
       THEN /\ wrk' = [wrk EXCEPT ![w] =
                 [@ EXCEPT !.pc = "sleep", !.did = <<>>,
                           !.secs = ERROR_RETRY_DELAY_SECS]]
            /\ claims' = claims
       ELSE \E it \in Selectable :
            /\ wrk' = [wrk EXCEPT ![w] = [@ EXCEPT !.pc = "send", !.item = it,
                                                   !.did = <<>>]]
            /\ claims' = [claims EXCEPT ![it] = CountUp(@)]
  /\ UNCHANGED <<now, idem, issues, queue, subs, req, sends, faults, redo>>

\* dequeue_task, and try_execute_task's early return on an empty result.
Dequeue(w) ==
  /\ wrk[w].pc = "dequeue"
  /\ IF Selectable = {}
       THEN /\ wrk' = [wrk EXCEPT ![w] =
                 [@ EXCEPT !.pc = "sleep", !.did = <<>>,
                           !.secs = EMPTY_QUEUE_POLL_INTERVAL_SECS]]
            /\ claims' = claims
       ELSE \E it \in Selectable :
            /\ wrk' = [wrk EXCEPT ![w] = [@ EXCEPT !.pc = "send", !.item = it,
                                                   !.did = <<>>]]
            /\ claims' = [claims EXCEPT ![it] = CountUp(@)]
  /\ UNCHANGED <<now, idem, issues, queue, subs, req, sends, faults, redo>>

\* The row of newsletter_issues get_issue loads: what insert_newsletter_issue
\* wrote for the issue, each rendition a list of parts.
IssueContent(i) ==
  [title |-> <<"title", i>>,
   html_content |-> << <<"html", i>> >>,
   text_content |-> << <<"text", i>> >>]

\* get_subscription_token_by_email: subscription_tokens joined with
\* subscriptions on the address; the token is stored with the subscriber.
SubscriptionToken(e) ==
  IF subs[e] = "absent" THEN NoToken ELSE <<"token", e>>

\* add_unsubscribe_footer: each rendition followed by its footer, which holds
\* the unsubscribe link of the token.
AddUnsubscribeFooter(html, text, token) ==
  <<Append(html, <<"html_footer", token>>),
    Append(text, <<"text_footer", token>>)>>

\* The EmailData try_execute_task builds for a queue row.
EmailFor(it) ==
  LET issue == IssueContent(it[1])
      token == SubscriptionToken(it[2])
      content == IF token # NoToken
                   THEN AddUnsubscribeFooter(issue.html_content,
                                             issue.text_content, token)
                   ELSE <<issue.html_content, issue.text_content>>
  IN [recipient |-> it[2], subject |-> issue.title,
      html_content |-> content[1], text_content |-> content[2]]

\* Mutant: a recipient without a subscription token makes try_execute_task
\* return an error before the send: the transaction is dropped and the loop
\* sleeps the error delay.
DeliverErrWithoutToken(w) ==
  /\ wrk[w].pc = "send"
  /\ LET it == wrk[w].item IN
       IF ValidEmail(it[2])
         THEN /\ it[1] \in issues
              /\ IF SubscriptionToken(it[2]) = NoToken
                   THEN /\ wrk' = [wrk EXCEPT ![w] =
                             [IdleWorker EXCEPT
                                !.pc = "sleep",
                                !.secs = ERROR_RETRY_DELAY_SECS]]
                        /\ sends' = sends
                   ELSE /\ \E ok \in BOOLEAN :
                             wrk' = [wrk EXCEPT ![w] =
                               [@ EXCEPT !.pc = "delete",
                                         !.mail = EmailFor(it),
                                         !.sent = IF ok THEN "ok"
                                                        ELSE "failed"]]
                        /\ sends' = [sends EXCEPT ![it] = CountUp(@)]
         ELSE /\ wrk' = [wrk EXCEPT ![w] =
                     [@ EXCEPT !.pc = "delete", !.sent = "skipped"]]
              /\ sends' = sends
  /\ UNCHANGED <<now, idem, issues, queue, subs, req, claims, faults, redo>>

\* Mutant: a failed send is tried a second time on the spot.
DeliverRetriesSend(w) ==
  /\ wrk[w].pc = "send"
  /\ LET it == wrk[w].item IN
       IF ValidEmail(it[2])
         THEN /\ it[1] \in issues
              /\ \E ok \in BOOLEAN :
                   /\ wrk' = [wrk EXCEPT ![w] =
                        [@ EXCEPT !.pc = "delete", !.mail = EmailFor(it),
                                  !.sent = IF ok THEN "ok" ELSE "failed"]]
                   /\ sends' = [sends EXCEPT ![it] =
                                 IF ok THEN CountUp(@) ELSE CountUp(CountUp(@))]
         ELSE /\ wrk' = [wrk EXCEPT ![w] =
                     [@ EXCEPT !.pc = "delete", !.sent = "skipped"]]
              /\ sends' = sends
  /\ UNCHANGED <<now, idem, issues, queue, subs, req, claims, faults, redo>>

\* Mutant: an address that does not parse makes try_execute_task return the
\* error: the transaction is dropped and the loop sleeps the error delay.
DeliverErrOnInvalid(w) ==
  /\ wrk[w].pc = "send"
  /\ LET it == wrk[w].item IN
       IF ValidEmail(it[2])
         THEN /\ it[1] \in issues
              /\ \E ok \in BOOLEAN :
                   wrk' = [wrk EXCEPT ![w] =
                     [@ EXCEPT !.pc = "delete", !.mail = EmailFor(it),
                               !.sent = IF ok THEN "ok" ELSE "failed"]]
              /\ sends' = [sends EXCEPT ![it] = CountUp(@)]
         ELSE /\ wrk' = [wrk EXCEPT ![w] =
                     [IdleWorker EXCEPT !.pc = "sleep",
                                        !.secs = ERROR_RETRY_DELAY_SECS]]
              /\ sends' = sends
  /\ UNCHANGED <<now, idem, issues, queue, subs, req, claims, faults, redo>>

\* try_execute_task from the address check to the end of the match: for a
\* valid address get_issue, get_subscription_token_by_email and one
\* send_email (with the footer when there is a token, without it otherwise),
\* whose failure is logged and swallowed.
Deliver(w) ==
  /\ wrk[w].pc = "send"
  /\ LET it == wrk[w].item IN
       IF ValidEmail(it[2])
         THEN /\ it[1] \in issues
              /\ \E ok \in BOOLEAN :
                   wrk' = [wrk EXCEPT ![w] =
                     [@ EXCEPT !.pc = "delete", !.mail = EmailFor(it),
                               !.sent = IF ok THEN "ok" ELSE "failed"]]
              /\ sends' = [sends EXCEPT ![it] = CountUp(@)]
         ELSE /\ wrk' = [wrk EXCEPT ![w] =
                     [@ EXCEPT !.pc = "delete", !.sent = "skipped"]]
              /\ sends' = sends
  /\ UNCHANGED <<now, idem, issues, queue, subs, req, claims, faults, redo>>

\* Mutant: after a failed send the row is left in the queue for another
\* attempt and the error is returned (the loop sleeps the error delay).
DeleteTaskUnlessFailed(w) ==
  /\ wrk[w].pc = "delete"
  /\ IF wrk[w].sent = "failed"
       THEN /\ queue' = queue
            /\ wrk' = [wrk EXCEPT ![w] =
                 [IdleWorker EXCEPT !.pc = "sleep",
                                    !.secs = ERROR_RETRY_DELAY_SECS]]
       ELSE /\ queue' = queue \ {wrk[w].item}
            /\ wrk' = [wrk EXCEPT ![w] =
                 [IdleWorker EXCEPT !.did = <<wrk[w].item, wrk[w].sent>>]]
  /\ UNCHANGED <<now, idem, issues, subs, req, sends, claims, faults, redo>>

\* Mutant: the DELETE matches on the issue alone and removes the rows of all
\* its recipients.
DeleteTaskOfIssue(w) ==
  /\ wrk[w].pc = "delete"
  /\ queue' = {it \in queue : it[1] # wrk[w].item[1]}
  /\ wrk' = [wrk EXCEPT ![w] =
       [IdleWorker EXCEPT !.did = <<wrk[w].item, wrk[w].sent>>]]
  /\ UNCHANGED <<now, idem, issues, subs, req, sends, claims, faults, redo>>

\* delete_task: DELETE and COMMIT; try_execute_task reports TaskCompleted
\* and worker_loop calls it again at once.
DeleteTask(w) ==
  /\ wrk[w].pc = "delete"
  /\ queue' = queue \ {wrk[w].item}
  /\ wrk' = [wrk EXCEPT ![w] =
       [IdleWorker EXCEPT !.did = <<wrk[w].item, wrk[w].sent>>]]
  /\ UNCHANGED <<now, idem, issues, subs, req, sends, claims, faults, redo>>

\* Mutant: the error is returned but the transaction is kept open while the
\* loop sleeps, so the row stays locked.
WorkerFaultKeepsLock(w) ==
  /\ wrk[w].pc \in {"dequeue", "send", "delete"}
  /\ faults < MaxFaults
  /\ faults' = faults + 1
  /\ wrk' = [wrk EXCEPT ![w] =
       [IdleWorker EXCEPT !.pc = "sleep", !.secs = ERROR_RETRY_DELAY_SECS,
                          !.item = wrk[w].item]]
  /\ redo' = IF wrk[w].sent \in {"ok", "failed"}
              THEN [redo EXCEPT ![wrk[w].item] = @ + 1]
              ELSE redo
  /\ UNCHANGED <<now, idem, issues, queue, subs, req, sends, claims>>

\* A storage error in dequeue_task, get_issue, the token lookup or delete_task:
\* `?` returns Err, the transaction is dropped (rolled back, the row unlocked)
\* and worker_loop sleeps the error delay.
WorkerFault(w) ==
  /\ wrk[w].pc \in {"dequeue", "send", "delete"}
  /\ faults < MaxFaults
  /\ faults' = faults + 1
  /\ wrk' = [wrk EXCEPT ![w] =
       [IdleWorker EXCEPT !.pc = "sleep", !.secs = ERROR_RETRY_DELAY_SECS]]
  /\ redo' = IF wrk[w].sent \in {"ok", "failed"}
              THEN [redo EXCEPT ![wrk[w].item] = @ + 1]
              ELSE redo
  /\ UNCHANGED <<now, idem, issues, queue, subs, req, sends, claims>>

\* Mutant: the loop ends when the queue is found empty; only the error delay
\* is followed by another try_execute_task.
WakeAfterErrorOnly(w) ==
  /\ wrk[w].pc = "sleep"
  /\ wrk[w].secs = ERROR_RETRY_DELAY_SECS
  /\ wrk' = [wrk EXCEPT ![w] = IdleWorker]
  /\ UNCHANGED <<now, idem, issues, queue, subs, req, sends, claims, faults, redo>>

\* Mutant: an error of try_execute_task is returned with `?` and ends
\* worker_loop; only the poll interval is followed by another call.
WakeAfterEmptyOnly(w) ==
  /\ wrk[w].pc = "sleep"
  /\ wrk[w].secs = EMPTY_QUEUE_POLL_INTERVAL_SECS
  /\ wrk' = [wrk EXCEPT ![w] = IdleWorker]
  /\ UNCHANGED <<now, idem, issues, queue, subs, req, sends, claims, faults, redo>>

\* tokio::time::sleep returns; the loop calls try_execute_task again.
Wake(w) ==
  /\ wrk[w].pc = "sleep"
  /\ wrk' = [wrk EXCEPT ![w] = IdleWorker]
  /\ UNCHANGED <<now, idem, issues, queue, subs, req, sends, claims, faults, redo>>

\* ---------------------------------------------------------- specifications
\* The steps of one request after its arrival.
RequestStep(r) ==
  \/ Insert(r)
  \/ FetchSaved(r)
  \/ DeleteSaved(r)
  \/ BusinessWrite(r)
  \/ Finalize(r)
  \/ Abort(r)

\* The subscription routes.
SubscriberStep ==
  \E e \in Emails : Subscribe(e) \/ Confirm(e) \/ Unsubscribe(e)

\* The steps of one worker loop when the store does not fail.
WorkerStep(w) ==
  \/ Dequeue(w)
  \/ Deliver(w)
  \/ DeleteTask(w)
  \/ Wake(w)

\* The whole program.
Next ==
  \/ Tick
  \/ SubscriberStep
  \/ \E r \in Reqs :
       Unauthorized(r) \/ StartPublish(r) \/ Reject(r) \/ RequestStep(r)
  \/ \E w \in Workers : WorkerStep(w) \/ WorkerFault(w)

Spec == Init /\ [][Next]_vars

\* The idempotency store under any write-type handler: Claim, Fetch and
\* Finalize with every response of Responses, and the clock.
NextIdem ==
  \/ Tick
  \/ \E r \in Reqs : StartCommand(r) \/ RequestStep(r)

IdemSpec == Init /\ [][NextIdem]_vars

\* Publishing over time: the clock, the subscription routes, the publish
\* requests and one worker loop draining the queue, with no storage error in
\* the worker.
NextPublish ==
  \/ Tick
  \/ SubscriberStep
  \/ \E r \in Reqs : StartPublish(r) \/ RequestStep(r)
  \/ WorkerStep(1)

PublishSpec == Init /\ [][NextPublish]_vars

\* Delivery: publish requests filling the queue and all the worker loops
\* draining it, with storage errors (DeliverySpec) and without (QuietSpec).
\* The clock stands still here: no record expires, so get_saved_response
\* never reaches delete_saved_response.
NextQuiet ==
  \/ SubscriberStep
  \/ \E r \in Reqs :
       \/ StartPublish(r)
       \/ Insert(r)
       \/ FetchSaved(r)
       \/ BusinessWrite(r)
       \/ Finalize(r)
       \/ Abort(r)
  \/ \E w \in Workers : WorkerStep(w)

QuietSpec == Init /\ [][NextQuiet]_vars

NextDelivery ==
  \/ NextQuiet
  \/ \E w \in Workers : WorkerFault(w)

DeliverySpec == Init /\ [][NextDelivery]_vars

\* The publish form with any token, well-formed or not, over time.
NextForm ==
  \/ Tick
  \/ \E r \in Reqs : StartPublish(r) \/ Reject(r) \/ RequestStep(r)

FormSpec == Init /\ [][NextForm]_vars

\* Retries of an earlier publish: the store holds the record user u1's
\* earlier request committed under k1 at time 0 (its issue, numbered 0, has
\* been delivered), and the requests arrive as the record ages.
EarlierIssue == 0

InitWithRecord ==
  /\ now = 0
  /\ idem = [k \in Keys |->
              IF k = <<"u1", "k1">>
                THEN [created_at |-> 0,
                      status |-> SavedColumns(SeeOther).status,
                      headers |-> SavedColumns(SeeOther).headers,
                      body |-> SavedColumns(SeeOther).body,
                      orig |-> SeeOther]
                ELSE NoRow]
  /\ issues = {EarlierIssue}
  /\ queue = {}
  /\ subs \in [Emails -> {"absent", "confirmed"}]
  /\ \A e \in Emails : ValidEmail(e) => subs[e] = "absent"
  /\ req = [r \in Reqs |-> IdleReq]
  /\ wrk = [w \in Workers |-> IdleWorker]
  /\ sends = [it \in Items |-> 0]
  /\ claims = [it \in Items |-> 0]
  /\ faults = 0
  /\ redo = [it \in Items |-> 0]

NextRetry ==
  \/ Tick
  \/ SubscriberStep
  \/ \E r \in Reqs : StartPublish(r) \/ RequestStep(r)

RetrySpec == InitWithRecord /\ [][NextRetry]_vars

\* The route POST /admin/newsletters behind require_auth, called with and
\* without a session, over time.
NextRoute ==
  \/ Tick
  \/ \E r \in Reqs :
       Unauthorized(r) \/ StartPublish(r) \/ Reject(r) \/ RequestStep(r)

RouteSpec == Init /\ [][NextRoute]_vars

\* Draining: the publish requests fill the queue first and are over when the
\* one worker loop starts; nothing is enqueued while it runs, and the store
\* does not fail.
WorkerNotBegun ==
  /\ \A w \in Workers : wrk[w] = IdleWorker
  /\ \A it \in Items : claims[it] = 0

NextDrain ==
  \/ SubscriberStep
  \/ \E r \in Reqs :
       \/ WorkerNotBegun /\ StartPublish(r)
       \/ Insert(r)
       \/ FetchSaved(r)
       \/ BusinessWrite(r)
       \/ Finalize(r)
       \/ Abort(r)
  \/ (\A r \in Reqs : ~InFlight(r)) /\ WorkerStep(1)

DrainSpec == Init /\ [][NextDrain]_vars

\* Liveness.  Every worker loop is a task the runtime keeps scheduling: each of
\* its awaits returns, with a result or (at most MaxFaults times) with a
\* storage error.  Subscribers only join here.
NextLive ==
  \/ \E e \in Emails : Subscribe(e) \/ Confirm(e)
  \/ \E r \in Reqs :
       \/ StartPublish(r)
       \/ Insert(r)
       \/ FetchSaved(r)
       \/ BusinessWrite(r)
       \/ Finalize(r)
       \/ Abort(r)
  \/ \E w \in Workers : WorkerStep(w) \/ WorkerFault(w)

LiveSpec ==
  /\ Init
  /\ [][NextLive]_vars
  /\ \A w \in Workers : WF_vars(WorkerStep(w))

\* ------------------------------------------------------------------ claims
\* The record is within the TTL at the present time: aged 24 hours or less.
WithinTTL(row) == now - row.created_at <= TTL_HOURS

\* The request ended with a response for its caller.
Answered(r) == req[r].out \in {"committed", "replay"}

\* The committed issues published under key k.
IssuesOf(k) == {i \in issues \cap Reqs : req[i].key = k}

\* C1: a Claim that finds a completed record within the TTL returns Replay
\* with the response Finalize was given: same status, headers and body.
C1_IdempotentReplay ==
  [][\A r \in Reqs :
       LET row == idem[req[r].key] IN
       (FetchSaved(r) /\ row # NoRow /\ WithinTTL(row))
         => (req'[r].out = "replay" /\ req'[r].got = row.orig)]_vars

\* A response with two set-cookie headers was saved and a later request was
\* answered from the record with one of them only.
C1_Witness ==
  \E r \in Reqs :
    LET row == idem[req[r].key] IN
    /\ req[r].out = "replay" /\ row # NoRow /\ WithinTTL(row)
    /\ Len(SelectSeq(row.orig.headers, LAMBDA h : h[1] = "set-cookie")) = 2
    /\ Len(SelectSeq(req[r].got.headers, LAMBDA h : h[1] = "set-cookie")) = 1

\* C2: any number of publish requests with one (owner, token) inside the TTL
\* commit the business write exactly once: one Issue, whose OutboxItems are the
\* recipients confirmed when it was written, each sent to at most once and,
\* once the queue is drained, exactly once.
Drained == queue = {} /\ \A w \in Workers : wrk[w].item = NoItem

C2_ExactlyOncePerKey ==
  now <= TTL_HOURS =>
    \A k \in Keys :
      /\ Cardinality(IssuesOf(k)) <= 1
      /\ (\E r \in Reqs : req[r].key = k /\ Answered(r))
           => Cardinality(IssuesOf(k)) = 1
      /\ \A i \in IssuesOf(k), e \in Emails :
           /\ <<i, e>> \in queue => e \in req[i].enq
           /\ sends[<<i, e>>] <= 1
           /\ sends[<<i, e>>] = 1 => e \in req[i].enq /\ ValidEmail(e)
           /\ (Drained /\ e \in req[i].enq /\ ValidEmail(e))
                => sends[<<i, e>>] = 1

\* Two requests with one key were answered, the second by replay, and every
\* recipient of the single issue has been sent to once.
C2_Witness ==
  \E r1, r2 \in Reqs :
    /\ r1 # r2 /\ req[r1].key = req[r2].key
    /\ ~req[r1].raced /\ ~req[r2].raced
    /\ req[r1].out = "committed" /\ req[r2].out = "replay"
    /\ Drained
    /\ "a@x.com" \in req[r1].enq
    /\ sends[<<r1, "a@x.com">>] = 1

\* C3: two publish requests with one (owner, token) that were in flight
\* together inside the TTL and were both answered got the same response, the
\* business write was committed once (by one of the two when no request before
\* them had committed it), and the outbox got one Issue's items: one per
\* recipient, not two.
C3_ConcurrentDuplicates ==
  now <= TTL_HOURS =>
    \A r1, r2 \in Reqs :
      ( /\ r1 # r2 /\ req[r1].key = req[r2].key
        /\ req[r1].raced /\ req[r2].raced
        /\ Answered(r1) /\ Answered(r2) )
      => /\ req[r1].got = req[r2].got
         /\ ~(req[r1].out = "committed" /\ req[r2].out = "committed")
         /\ Cardinality(IssuesOf(req[r1].key)) = 1
         /\ \A e \in Emails :
              Cardinality({it \in queue : /\ req[it[1]].key = req[r1].key
                                          /\ it[2] = e}) <= 1

\* Both requests were in flight together; one committed, its items are in the
\* outbox, and the other was answered from the saved response.
C3_Witness ==
  \E r1, r2 \in Reqs :
    /\ r1 # r2 /\ req[r1].key = req[r2].key
    /\ req[r1].raced /\ req[r2].raced
    /\ req[r1].out = "committed" /\ req[r2].out = "replay"
    /\ <<r1, "a@x.com">> \in queue

\* C4: when Finalize commits, whichever way Claim handed the transaction out,
\* the store then holds a completed record for the key with the response.
C4_FinalizeLeavesRecord ==
  [][\A r \in Reqs :
       Finalize(r) => /\ idem'[req[r].key] # NoRow
                      /\ idem'[req[r].key].orig = req[r].resp]_vars

\* A request that was handed its transaction after the expired record was
\* deleted has committed, and the store holds no record for its key.
C4_Witness ==
  \E r \in Reqs :
    /\ req[r].out = "committed" /\ req[r].via = "expired"
    /\ idem[req[r].key] = NoRow

\* C5: a Claim that fetches a completed record older than the TTL does not
\* replay it; when no other request with the key is in flight it deletes the
\* row and returns NewTransaction, and the business write it commits is a new
\* Issue with its own OutboxItems.
C5_ExpiryReprocesses ==
  [][\A r \in Reqs :
       LET k == req[r].key
           row == idem[k]
       IN /\ (FetchSaved(r) /\ row # NoRow /\ ~WithinTTL(row))
               => /\ req'[r].out # "replay"
                  /\ req'[r].pc = "delete"
          /\ (DeleteSaved(r) /\ ~req[r].raced)
               => /\ req'[r].pc = "process"
                  /\ idem'[k] = NoRow
          /\ (Finalize(r) /\ req[r].via = "expired")
               => /\ r \in issues' \ issues
                  /\ \A e \in req[r].enq : <<r, e>> \in queue' \ queue]_vars

\* The key was published, expired, and published again by a request on its
\* own: two issues, and the recipient was sent each of them.
C5_Witness ==
  \E r1, r2 \in Reqs :
    /\ r1 # r2 /\ req[r1].key = req[r2].key
    /\ req[r1].out = "committed" /\ req[r2].out = "committed"
    /\ req[r2].via = "expired" /\ ~req[r2].raced
    /\ sends[<<r1, "a@x.com">>] = 1 /\ sends[<<r2, "a@x.com">>] = 1

\* C6: records are per owner.  A request whose owner has no other request
\* with the token gets NewTransaction by a fresh insert, whatever the other
\* owners hold under that token, and a Replay is always the response saved
\* by a committed request of the same owner and token.
C6_PerOwnerIsolation ==
  \A r \in Reqs :
    /\ ( /\ req[r].pc \notin {"idle", "insert"}
         /\ req[r].out # "error"
         /\ \A q \in Reqs \ {r} : req[q].pc = "idle" \/ req[q].key # req[r].key )
       => req[r].via = "insert"
    /\ req[r].out = "replay"
       => \E q \in Reqs \ {r} :
            /\ req[q].key = req[r].key
            /\ req[q].out = "committed"
            /\ req[r].got = LoadResponse(SavedColumns(req[q].resp))

\* The two owners hold completed records under the same token, each with the
\* response of its own request.
C6_Witness ==
  \E r1, r2 \in Reqs :
    /\ req[r1].key = <<"u1", "k1">> /\ req[r2].key = <<"u2", "k1">>
    /\ req[r1].out = "committed" /\ req[r2].out = "committed"
    /\ req[r1].resp # req[r2].resp
    /\ idem[<<"u1", "k1">>] # NoRow /\ idem[<<"u1", "k1">>].orig = req[r1].resp
    /\ idem[<<"u2", "k1">>] # NoRow /\ idem[<<"u2", "k1">>].orig = req[r2].resp

\* C7: the business writes and the completion marker become visible together
\* or not at all: an Issue and its OutboxItems are visible exactly when the
\* request that wrote them has committed, an uncommitted idempotency row is
\* visible to nobody, and every visible record is the completed record of a
\* committed request.
C7_OutboxAtomicity ==
  /\ \A r \in Reqs : r \in issues <=> req[r].out = "committed"
  /\ \A it \in queue : it[1] \in issues /\ it[2] \in req[it[1]].enq
  /\ \A r \in Reqs :
       req[r].out = "committed"
         => \A e \in req[r].enq : <<r, e>> \in queue \/ claims[<<r, e>>] >= 1
  /\ \A r \in Reqs : req[r].hasRow => idem[req[r].key] = NoRow
  /\ \A k \in Keys :
       idem[k] # NoRow
         => \E r \in Reqs : /\ req[r].key = k
                            /\ req[r].out = "committed"
                            /\ idem[k].orig = req[r].resp

\* A request that had inserted its idempotency row and enqueued a recipient
\* was aborted before the commit: nothing of it is visible.
C7_Witness ==
  \E r \in Reqs :
    /\ req[r].out = "error" /\ req[r].via = "insert"
    /\ "a@x.com" \in req[r].enq
    /\ r \notin issues
    /\ <<r, "a@x.com">> \notin queue
    /\ idem[req[r].key] = NoRow

\* The item was committed to the queue by a publish request.
Enqueued(it) == req[it[1]].out = "committed" /\ it[2] \in req[it[1]].enq

\* C8: with concurrent workers and no storage error every item is held by at
\* most one worker, is claimed once and never again, and send is invoked once
\* for it when its address is valid and never otherwise.
C8_NoDuplicateDelivery ==
  \A it \in Items :
    /\ Cardinality({w \in Workers : wrk[w].item = it}) <= 1
    /\ claims[it] <= 1
    /\ sends[it] <= claims[it]
    /\ claims[it] = 1 => Enqueued(it)
    /\ (Enqueued(it) /\ it \notin queue)
         => /\ claims[it] = 1
            /\ sends[it] = IF ValidEmail(it[2]) THEN 1 ELSE 0

\* The two workers hold two different items at once, each past its send.
C8_Witness ==
  /\ wrk[1].pc = "delete" /\ wrk[2].pc = "delete"
  /\ wrk[1].item # wrk[2].item
  /\ sends[wrk[1].item] = 1 /\ sends[wrk[2].item] = 1

\* C9 as stated: send is invoked at most once for an item, whatever storage
\* error occurs in try_execute_task.
C9_AtMostOneSend == \A it \in Items : sends[it] <= 1

\* C9 amended: send is invoked at most once each time the item is claimed, and
\* an item already sent is sent again only when a storage error in
\* delete_task rolled its transaction back after the send.
C9_OneSendPerClaim ==
  \A it \in Items :
    /\ sends[it] <= claims[it]
    /\ sends[it] <= 1 + redo[it]

\* An item was sent, the delete or commit failed, and it was sent again.
C9_Witness ==
  \E it \in Items : sends[it] = 2 /\ redo[it] = 1 /\ it \notin queue

\* C10: every item a publish request committed is eventually gone from the
\* queue after a worker claimed it, and the queue ends up empty for good.
C10_EventualDelivery ==
  /\ \A it \in Items :
       (it \in queue) ~> (it \notin queue /\ claims[it] >= 1)
  /\ <>[](queue = {})

\* An item was rolled back by a storage error once and was delivered at the
\* next attempt.
C10_Witness ==
  \E it \in Items :
    /\ Enqueued(it) /\ it \notin queue
    /\ claims[it] = 2 /\ faults = 1 /\ sends[it] >= 1

\* C11: one worker draining a queue that nothing is added to, with no storage
\* error: no item is completed twice or sent twice, and when try_execute_task
\* reports EmptyQueue the queue is empty, every enqueued item has been
\* completed exactly once (TaskCompleted once per item) and send was invoked
\* once for each item with a valid address and never for another.
C11_DrainToCompletion ==
  /\ \A it \in Items : claims[it] <= 1 /\ sends[it] <= claims[it]
  /\ (wrk[1].pc = "sleep" /\ wrk[1].secs = EMPTY_QUEUE_POLL_INTERVAL_SECS)
       => /\ queue = {}
          /\ \A it \in Items :
               /\ claims[it] = IF Enqueued(it) THEN 1 ELSE 0
               /\ sends[it] = IF Enqueued(it) /\ ValidEmail(it[2]) THEN 1 ELSE 0

\* Two issues with two recipients each were enqueued; the worker completed the
\* four items and then found the queue empty.
C11_Witness ==
  /\ wrk[1].pc = "sleep" /\ wrk[1].secs = EMPTY_QUEUE_POLL_INTERVAL_SECS
  /\ queue = {}
  /\ \A it \in Items : claims[it] = 1
  /\ \A r \in Reqs : sends[<<r, "a@x.com">>] = 1 /\ sends[<<r, "bad">>] = 0

\* C12: the business write enqueues one item for every subscriber whose status
\* is confirmed when the enqueue statement runs and none for any other; the
\* commit adds exactly those rows to the queue, and an item is only ever
\* queued, claimed or sent to when it was enqueued that way (so an issue
\* written with no confirmed subscriber has no item and no send).
C12_EnqueueConfirmedOnly ==
  /\ [][\A r \in Reqs :
          /\ BusinessWrite(r)
               => req'[r].enq = {e \in Emails : subs[e] = "confirmed"}
          /\ Finalize(r)
               => /\ queue' \ queue = {<<r, e>> : e \in req[r].enq}
                  /\ queue \subseteq queue']_vars
  /\ [](\A it \in Items :
          (it \in queue \/ claims[it] >= 1 \/ sends[it] >= 1)
            => (req[it[1]].out = "committed" /\ it[2] \in req[it[1]].enq))

\* An issue committed while the subscriber was pending has no item and no
\* send; the issue committed after the confirmation was sent to the subscriber.
C12_Witness ==
  \E r1, r2 \in Reqs :
    /\ req[r1].out = "committed" /\ req[r1].enq = {}
    /\ req[r2].out = "committed" /\ req[r2].enq = {"a@x.com"}
    /\ sends[<<r1, "a@x.com">>] = 0 /\ sends[<<r2, "a@x.com">>] = 1
    /\ queue = {}

\* The item was claimed and its row is gone: it has been completed.
Completed(it) == claims[it] >= 1 /\ it \notin queue /\ it \notin Locked

\* C13: when the send for an item failed, the delete_task that follows removes
\* the row, commits and try_execute_task reports TaskCompleted: the loop goes
\* on without sleeping, and a completed item never comes back into the queue.
C13_DeleteAfterFailedSend ==
  [][/\ \A w \in Workers :
          (DeleteTask(w) /\ wrk[w].sent = "failed")
            => /\ wrk[w].item \in queue /\ wrk[w].item \notin queue'
               /\ wrk'[w].pc = "dequeue"
               /\ wrk'[w].did = <<wrk[w].item, "failed">>
               /\ sends'[wrk[w].item] = sends[wrk[w].item]
     /\ \A it \in Items : Completed(it) => it \notin queue']_vars

\* A worker has completed an item whose send failed: the row is gone after one
\* claim and one send, and the worker is about to dequeue again.
C13_Witness ==
  \E w \in Workers, it \in Items :
    /\ wrk[w].pc = "dequeue" /\ wrk[w].did = <<it, "failed">>
    /\ it \notin queue
    /\ claims[it] = 1 /\ sends[it] = 1

\* C14: for an item whose address does not parse try_execute_task invokes no
\* send, deletes the row, commits and reports TaskCompleted; the loop goes on
\* to the next item without sleeping, and no send is ever made for the item.
C14_PoisonSkipped ==
  /\ [][\A w \in Workers :
          LET it == wrk[w].item IN
          /\ (Deliver(w) /\ ~ValidEmail(it[2]))
               => /\ sends' = sends
                  /\ wrk'[w].pc = "delete" /\ wrk'[w].sent = "skipped"
          /\ (DeleteTask(w) /\ wrk[w].sent = "skipped")
               => /\ it \in queue /\ it \notin queue'
                  /\ wrk'[w].pc = "dequeue"
                  /\ wrk'[w].did = <<it, "skipped">>]_vars
  /\ [](\A it \in Items : ~ValidEmail(it[2]) => sends[it] = 0)

\* The one worker completed an item with an invalid address without a send,
\* and after it an item of the same issue with a valid address, which it sent.
C14_Witness ==
  \E r \in Reqs :
    /\ Completed(<<r, "bad">>) /\ sends[<<r, "bad">>] = 0
    /\ wrk[1].pc = "dequeue"
    /\ wrk[1].did = << <<r, "a@x.com">>, "ok" >>
    /\ <<r, "a@x.com">> \notin queue

\* C15: when a storage error makes try_execute_task return Err, the row it had
\* selected is still in the queue, nothing was deleted, no worker holds it
\* locked any more, and the next dequeue_task of any worker may return it.
C15_NoLeakOnError ==
  [][\A w \in Workers :
       (WorkerFault(w) /\ wrk[w].item # NoItem)
         => /\ queue' = queue
            /\ wrk[w].item \in queue'
            /\ wrk[w].item \notin Locked'
            /\ wrk[w].item \in Selectable'
            /\ wrk'[w].pc = "sleep"
            /\ wrk'[w].secs = ERROR_RETRY_DELAY_SECS]_vars

\* An item one worker lost to a storage error is held by the other worker.
C15_Witness ==
  \E it \in Items :
    /\ faults = 1 /\ claims[it] = 2
    /\ wrk[1].pc = "sleep" /\ wrk[1].secs = ERROR_RETRY_DELAY_SECS
    /\ wrk[2].item = it /\ it \in queue

\* The request was handed a transaction by try_processing (StartProcessing).
GotNewTransaction(r) == req[r].via \in {"insert", "expired", "notfound"}

\* C16: an attempt that obtained NewTransaction and is aborted before the
\* commit leaves the tables as they were and no idempotency row of its own
\* behind (unless another request holds a row of the key, nobody waits for
\* the key afterwards): only a request in flight holds an uncommitted row, so
\* a later Claim of the key is not kept waiting, inserts its own row and gets
\* NewTransaction.
C16_HalfClaimedNeverStuck ==
  /\ [][\A r \in Reqs :
          /\ (Abort(r) /\ GotNewTransaction(r))
               => /\ idem' = idem /\ issues' = issues /\ queue' = queue
                  /\ ~req'[r].hasRow
                  /\ ~RowHeldByOther(r, req[r].key)
                       => \A q \in Reqs \ {r} :
                            ~RowHeldByOther(q, req[r].key)'
          /\ (Insert(r) /\ idem[req[r].key] = NoRow)
               => req'[r].pc = "process" /\ req'[r].via = "insert"]_vars
  /\ [](\A r \in Reqs :
          /\ req[r].hasRow => InFlight(r)
          /\ (req[r].pc = "insert" /\ \A q \in Reqs \ {r} : ~InFlight(q))
               => ENABLED Insert(r))

\* A request was aborted after it had inserted its row; a later request with
\* the same key inserted its own, committed, and the record is in the store.
C16_Witness ==
  \E r1, r2 \in Reqs :
    /\ r1 # r2 /\ req[r1].key = req[r2].key
    /\ ~req[r1].raced /\ ~req[r2].raced
    /\ req[r1].out = "error" /\ req[r1].via = "insert"
    /\ req[r2].out = "committed" /\ req[r2].via = "insert"
    /\ idem[req[r2].key] # NoRow

\* C17: a publish request with a malformed token is rejected before any
\* storage access: no transaction is opened for it, it holds no row, and the
\* idempotency, issue and outbox tables are unchanged.
C17_MalformedTokenNoStorage ==
  /\ [][\A r \in Reqs :
          Reject(r) => /\ idem' = idem /\ issues' = issues /\ queue' = queue
                       /\ req'[r].pc = "done" /\ ~InFlight(r)'
                       /\ ~req'[r].hasRow]_vars
  /\ [](\A r \in Reqs :
          req[r].out = "rejected"
            => /\ req[r].via = "none" /\ ~req[r].hasRow /\ req[r].enq = {}
               /\ r \notin issues
               /\ \A e \in Emails : <<r, e>> \notin queue)

\* A request was rejected for its token while another request, with a
\* well-formed token, committed its record.
C17_Witness ==
  \E r1, r2 \in Reqs :
    /\ req[r1].out = "rejected" /\ r1 \notin issues
    /\ req[r2].out = "committed" /\ issues = {r2}
    /\ idem[req[r2].key] # NoRow

\* C18: a publish request with a malformed token ends with a client error
\* (4xx), not with a server error (5xx).
C18_MalformedTokenClientError ==
  \A r \in Reqs :
    req[r].out = "rejected"
      => req[r].got.status >= 400 /\ req[r].got.status <= 499

\* A request with a malformed token was answered 500.
C18_Witness ==
  \E r \in Reqs :
    req[r].out = "rejected" /\ req[r].got.status = INTERNAL_SERVER_ERROR

\* How many entries of the header list hs are the (name, value) pair h.
HeaderCount(hs, h) == Cardinality({i \in 1..Len(hs) : hs[i] = h})

\* Every entry of the header list a is in b, as many times as in a.
HeadersKept(a, b) ==
  \A i \in 1..Len(a) : HeaderCount(b, a[i]) >= HeaderCount(a, a[i])

\* The response has two or more header entries under one name.
HasDuplicateNames(resp) ==
  \E i, j \in 1..Len(resp.headers) :
    i # j /\ resp.headers[i][1] = resp.headers[j][1]

\* C19: when the response given to Finalize has several header entries with
\* one name, the response a later Claim replays has every one of them with its
\* value, and the same status and body.
C19_HeaderRoundTrip ==
  [][\A r \in Reqs :
       LET row == idem[req[r].key] IN
       ( /\ FetchSaved(r) /\ row # NoRow
         /\ HasDuplicateNames(row.orig)
         /\ req'[r].out = "replay" )
       => /\ HeadersKept(row.orig.headers, req'[r].got.headers)
          /\ req'[r].got.status = row.orig.status
          /\ req'[r].got.body = row.orig.body]_vars

\* The saved response had set-cookie: a=1 and set-cookie: b=2; the replayed
\* one has the same status and body but no set-cookie: a=1.
C19_Witness ==
  \E r \in Reqs :
    LET row == idem[req[r].key] IN
    /\ req[r].out = "replay" /\ row # NoRow
    /\ HeaderCount(row.orig.headers, <<"set-cookie", "a=1">>) = 1
    /\ HeaderCount(req[r].got.headers, <<"set-cookie", "a=1">>) = 0
    /\ HeaderCount(req[r].got.headers, <<"set-cookie", "b=2">>) = 1
    /\ req[r].got.status = row.orig.status
    /\ req[r].got.body = row.orig.body

\* The two header lists have the same entries, each as many times.
SameHeaders(a, b) == HeadersKept(a, b) /\ HeadersKept(b, a)

\* C20: the response save_response returns has the status, the headers and
\* the body of the response it was given, and it is the response a replay of
\* the record it stored gives.
C20_FinalizeReturnsUnchanged ==
  [][\A r \in Reqs :
       Finalize(r)
         => LET given == req[r].resp
                back == req'[r].got
                row == idem'[req[r].key]
            IN /\ back.status = given.status
               /\ back.body = given.body
               /\ SameHeaders(given.headers, back.headers)
               /\ row # NoRow
                    => /\ LoadResponse(row).status = back.status
                       /\ LoadResponse(row).body = back.body
                       /\ SameHeaders(LoadResponse(row).headers,
                                      back.headers)]_vars

\* The redirect given to save_response had a location header only; the
\* response it returned has a content-type header as well.
C20_Witness ==
  \E r \in Reqs :
    /\ req[r].out = "committed" /\ req[r].resp = SeeOther
    /\ HeaderCount(req[r].resp.headers,
                   <<"content-type", "application/octet-stream">>) = 0
    /\ HeaderCount(req[r].got.headers,
                   <<"content-type", "application/octet-stream">>) = 1
    /\ HeaderCount(req[r].got.headers,
                   <<"location", "/admin/newsletters">>) = 1

\* The rows of table idempotency under key k: the committed one and those the
\* open transactions hold uncommitted.
RowsUnder(k) ==
  (IF idem[k] # NoRow THEN 1 ELSE 0)
    + Cardinality({r \in Reqs : req[r].hasRow /\ req[r].key = k})

\* C21: in every reachable state table idempotency holds at most one row per
\* (user_id, idempotency_key), committed or not, whatever the interleaving of
\* inserts, commits, expiry deletions and rollbacks.
C21_KeyUniqueness == \A k \in Keys : RowsUnder(k) <= 1

\* Two requests with one key were in flight together: one inserted its row
\* and was rolled back, the other then inserted its own and committed it.
C21_Witness ==
  \E r1, r2 \in Reqs :
    /\ r1 # r2 /\ req[r1].key = req[r2].key
    /\ req[r1].raced /\ req[r2].raced
    /\ req[r1].out = "error" /\ req[r1].via = "insert"
    /\ req[r2].out = "committed" /\ req[r2].via = "insert"
    /\ RowsUnder(req[r2].key) = 1

\* C22: a publish request whose session holds no user is answered 401 by
\* require_auth before the handler runs: no transaction is opened for it, it
\* makes no Claim, and the idempotency, issue and outbox tables are unchanged.
C22_UnauthenticatedDoesNothing ==
  /\ [][\A r \in Reqs :
          Unauthorized(r)
            => /\ idem' = idem /\ issues' = issues /\ queue' = queue
               /\ req'[r].pc = "done" /\ ~InFlight(r)'
               /\ req'[r].got.status = UNAUTHORIZED]_vars
  /\ [](\A r \in Reqs :
          req[r].out = "unauthorized"
            => /\ req[r].via = "none" /\ ~req[r].hasRow /\ req[r].enq = {}
               /\ req[r].got.status = UNAUTHORIZED
               /\ r \notin issues
               /\ \A e \in Emails : <<r, e>> \notin queue)

\* A request without a session was answered 401 while the store holds the
\* record and the issue of another, authenticated, request only.
C22_Witness ==
  \E r1, r2 \in Reqs :
    /\ req[r1].out = "unauthorized" /\ req[r1].got = UnauthorizedResponse
    /\ req[r2].out = "committed" /\ idem[req[r2].key] # NoRow
    /\ issues = {r2}

\* C23: while one request holds an uncommitted transaction try_processing
\* handed it for a key, a concurrent request with the key whose insert added
\* no row and whose SELECT finds no row is handed a transaction too: it does
\* not fail, and the SELECT waits for nobody.
C23_SecondNewTransaction ==
  /\ [][\A r \in Reqs :
          ( /\ FetchSaved(r)
            /\ idem[req[r].key] = NoRow
            /\ \E q \in Reqs \ {r} :
                 /\ InFlight(q) /\ GotNewTransaction(q)
                 /\ req[q].key = req[r].key )
          => req'[r].pc = "process" /\ req'[r].via = "notfound"]_vars
  /\ [](\A r \in Reqs : req[r].pc = "fetch" => ENABLED FetchSaved(r))

\* Two requests with one key are both past try_processing and neither has
\* committed; the second got its transaction after finding no row.
C23_Witness ==
  \E r1, r2 \in Reqs :
    /\ r1 # r2 /\ req[r1].key = req[r2].key
    /\ req[r1].pc \in {"process", "finalize"}
    /\ req[r2].pc \in {"process", "finalize"}
    /\ GotNewTransaction(r1) /\ req[r2].via = "notfound"

\* The request re-executes the business logic over a record that had expired.
Reprocesses(r) == req[r].via \in {"expired", "notfound"}

\* C24: of two requests with one key that race on an expired record at most
\* one commits the re-executed business logic: one new issue, and one new
\* queue row per confirmed recipient, not two.
C24_ExpiredRaceExecutesOnce ==
  \A r1, r2 \in Reqs :
    ( /\ r1 # r2 /\ req[r1].key = req[r2].key
      /\ req[r1].raced /\ req[r2].raced
      /\ Reprocesses(r1) /\ Reprocesses(r2) )
    => /\ ~(req[r1].out = "committed" /\ req[r2].out = "committed")
       /\ Cardinality(IssuesOf(req[r1].key) \cap {r1, r2}) <= 1

\* Both racing requests re-executed over the expired record and committed:
\* the store holds two new issues for the key.
C24_Witness ==
  \E r1, r2 \in Reqs :
    /\ r1 # r2 /\ req[r1].key = req[r2].key
    /\ req[r1].raced /\ req[r2].raced
    /\ req[r1].via = "expired" /\ req[r2].via = "notfound"
    /\ req[r1].out = "committed" /\ req[r2].out = "committed"
    /\ {r1, r2} \subseteq issues

\* C25: a request that found the record expired never fails because another
\* request deleted the row first: delete_saved_response is followed by the
\* business logic (new transaction), not by an error.
C25_ExpiredClaimNeverFails ==
  [][\A r \in Reqs :
       DeleteSaved(r) => (req'[r].pc = "process" /\ req'[r].out # "error")]_vars

\* Two requests raced on the expired record: the first deleted it and went on,
\* the second, which had read the same row, ended with an error.
C25_Witness ==
  \E r1, r2 \in Reqs :
    /\ r1 # r2 /\ req[r1].key = req[r2].key
    /\ req[r1].raced /\ req[r2].raced
    /\ req[r1].via = "expired" /\ req[r1].pc = "process"
    /\ req[r2].pc = "done" /\ req[r2].out = "error" /\ req[r2].via = "none"
    /\ idem[req[r1].key] = NoRow

\* C26: try_processing on a key with a committed, unexpired record returns the
\* saved response whatever its status code is: no stored status makes it hand
\* out a transaction for the business logic.
C26_ReplayForEveryStatus ==
  [][\A r \in Reqs :
       LET row == idem[req[r].key] IN
       (FetchSaved(r) /\ row # NoRow /\ ~Expired(row.created_at, now))
         => /\ req'[r].out = "replay"
            /\ req'[r].pc = "done"
            /\ req'[r].got.status = row.orig.status]_vars

\* The record under the key holds a 408 response and is not expired, and a
\* request that fetched it is in the business logic.
C26_Witness ==
  \E r \in Reqs :
    LET row == idem[req[r].key] IN
    /\ row # NoRow /\ ~Expired(row.created_at, now)
    /\ row.orig.status = REQUEST_TIMEOUT
    /\ req[r].pc = "process" /\ req[r].via = "expired"

\* The age of a record at the present time, in hours.
Age(row) == now - row.created_at

\* C27: a record is treated as expired exactly when its created_at is strictly
\* earlier than now - 24 hours: fetched at an age of 24 hours or less it is
\* replayed, fetched at a greater age it goes to deletion, and the deletion
\* removes it and is followed by the business logic.
C27_TTLBoundary ==
  [][\A r \in Reqs :
       LET row == idem[req[r].key] IN
       /\ (FetchSaved(r) /\ row # NoRow /\ Age(row) <= TTL_HOURS)
            => (req'[r].out = "replay" /\ req'[r].pc = "done")
       /\ (FetchSaved(r) /\ row # NoRow /\ Age(row) > TTL_HOURS)
            => req'[r].pc = "delete"
       /\ (DeleteSaved(r) /\ row # NoRow)
            => (idem'[req[r].key] = NoRow /\ req'[r].pc = "process")]_vars

\* A record aged exactly 24 hours was fetched and the request that fetched it
\* was handed a transaction for the business logic; the record is still there.
C27_Witness ==
  \E r \in Reqs :
    LET row == idem[req[r].key] IN
    /\ row # NoRow /\ Age(row) = TTL_HOURS
    /\ req[r].pc = "process" /\ req[r].via = "expired"

\* C28: a try_processing that returns the saved response leaves the store as
\* it was: the idempotency, issue and outbox tables are unchanged by it, and
\* the transaction it opened is dropped with nothing written in it.
C28_ReplayChangesNothing ==
  /\ [][\A r \in Reqs :
          (FetchSaved(r) /\ req'[r].out = "replay")
            => /\ idem' = idem /\ issues' = issues /\ queue' = queue
               /\ ~InFlight(r)' /\ ~req'[r].hasRow
               /\ req'[r].enq = {}]_vars
  /\ [](\A r \in Reqs :
          req[r].out = "replay"
            => /\ ~req[r].hasRow /\ req[r].via = "none" /\ req[r].enq = {}
               /\ r \notin issues
               /\ \A e \in Emails : <<r, e>> \notin queue)

\* A request was answered with the saved response while the store holds what
\* the first request committed: its record, its issue and its queue rows.
C28_Witness ==
  \E r1, r2 \in Reqs :
    /\ r1 # r2 /\ req[r1].key = req[r2].key
    /\ req[r1].out = "committed" /\ req[r2].out = "replay"
    /\ idem[req[r1].key] # NoRow /\ issues = {r1}
    /\ req[r1].enq # {}
    /\ queue = {<<r1, e>> : e \in req[r1].enq}

\* The committed row holds a response: none of its response columns is NULL.
HoldsResponse(row) ==
  /\ row.orig # NoResp
  /\ row # ClaimedRow(row.created_at)
  /\ row.status = SavedColumns(row.orig).status
  /\ row.headers = SavedColumns(row.orig).headers
  /\ row.body = SavedColumns(row.orig).body

\* C29: every idempotency row visible outside the transaction that created it
\* holds a response: a claimed row without one is never committed, so
\* get_saved_response never reads NULL in status, headers or body.
C29_CommittedAreCompleted ==
  /\ \A k \in Keys : idem[k] # NoRow => HoldsResponse(idem[k])
  /\ \A r \in Reqs :
       (req[r].pc = "fetch" /\ idem[req[r].key] # NoRow)
         => StatusFromI16Ok(idem[req[r].key].status)

\* One request holds its claimed row uncommitted, invisible to the others,
\* while another request is about to fetch the completed record of its key.
C29_Witness ==
  \E r1, r2 \in Reqs :
    /\ req[r1].hasRow /\ req[r1].pc = "process"
    /\ idem[req[r1].key] = NoRow
    /\ req[r2].pc = "fetch" /\ idem[req[r2].key] # NoRow
    /\ HoldsResponse(idem[req[r2].key])

\* C30: at every moment a queue row is locked by at most one worker
\* transaction; dequeue_task never returns a row another worker holds, and a
\* worker holds a row exactly from its dequeue to its commit or rollback.
C30_RowMutualExclusion ==
  /\ [][\A w \in Workers :
          (Dequeue(w) /\ wrk'[w].item # NoItem)
            => /\ wrk'[w].item \in queue
               /\ \A v \in Workers \ {w} : wrk[v].item # wrk'[w].item]_vars
  /\ [](\A w1, w2 \in Workers :
          (w1 # w2 /\ wrk[w1].item # NoItem) => wrk[w1].item # wrk[w2].item)
  /\ [](\A w \in Workers :
          (wrk[w].item # NoItem) <=> (wrk[w].pc \in {"send", "delete"}))

\* Both workers hold a row, each its own, and one of the rows is held for the
\* second time: the transaction that held it first was rolled back.
C30_Witness ==
  \E w1, w2 \in Workers :
    /\ w1 # w2
    /\ wrk[w1].item # NoItem /\ wrk[w2].item # NoItem
    /\ wrk[w1].item # wrk[w2].item
    /\ claims[wrk[w1].item] = 2 /\ faults = 1

\* try_execute_task ended with EmptyQueue: the loop sleeps the poll interval.
ReportsEmptyQueue(w) ==
  wrk[w].pc = "sleep" /\ wrk[w].secs = EMPTY_QUEUE_POLL_INTERVAL_SECS

\* C31: try_execute_task reports EmptyQueue exactly when the queue holds no
\* row that no worker has locked (be it empty, be all its rows locked by other
\* workers), and then it deletes no row, invokes no send and holds no row.
C31_EmptyQueueSideEffectFree ==
  [][\A w \in Workers :
       Dequeue(w)
         => /\ ReportsEmptyQueue(w)'
                 <=> (queue \ {wrk[v].item : v \in Workers \ {w}} = {})
            /\ ReportsEmptyQueue(w)'
                 => /\ queue' = queue /\ sends' = sends /\ claims' = claims
                    /\ wrk'[w].item = NoItem
                    /\ \A v \in Workers \ {w} : wrk'[v] = wrk[v]]_vars

\* A worker was told EmptyQueue while the queue holds rows, all of them locked
\* by the other worker.
C31_Witness ==
  \E w \in Workers :
    /\ ReportsEmptyQueue(w)
    /\ queue # {}
    /\ queue \subseteq {wrk[v].item : v \in Workers \ {w}}

\* C32: in worker_loop EmptyQueue is followed by a sleep of the poll interval
\* (10 s), an error by a sleep of the shorter error delay (1 s), and
\* TaskCompleted by the next try_execute_task with no sleep; each sleep ends in
\* the next try_execute_task.
C32_BackoffPolicy ==
  /\ [][\A w \in Workers :
          /\ (Dequeue(w) /\ wrk'[w].item = NoItem)
               => /\ wrk'[w].pc = "sleep"
                  /\ wrk'[w].secs = EMPTY_QUEUE_POLL_INTERVAL_SECS
          /\ WorkerFault(w)
               => /\ wrk'[w].pc = "sleep"
                  /\ wrk'[w].secs = ERROR_RETRY_DELAY_SECS
          /\ DeleteTask(w)
               => wrk'[w].pc = "dequeue" /\ wrk'[w].secs = 0
          /\ Wake(w)
               => wrk'[w].pc = "dequeue" /\ wrk'[w].secs = 0]_vars
  /\ [](/\ ERROR_RETRY_DELAY_SECS < EMPTY_QUEUE_POLL_INTERVAL_SECS
        /\ \A w \in Workers :
             (wrk[w].pc = "sleep")
               <=> wrk[w].secs \in {EMPTY_QUEUE_POLL_INTERVAL_SECS,
                                    ERROR_RETRY_DELAY_SECS})

\* One worker sleeps the poll interval after an empty queue, the other the
\* error delay after a storage error, and an item has been completed.
C32_Witness ==
  \E w1, w2 \in Workers, it \in Items :
    /\ wrk[w1].pc = "sleep"
    /\ wrk[w1].secs = EMPTY_QUEUE_POLL_INTERVAL_SECS
    /\ wrk[w2].pc = "sleep" /\ wrk[w2].secs = ERROR_RETRY_DELAY_SECS
    /\ faults = 1 /\ Completed(it)

\* C33: worker_loop never stops: whatever try_execute_task returned, the
\* worker calls it again later; in particular the sleep after an error ends
\* in another call, and the worker goes on taking items.
C33_LoopNeverStops ==
  \A w \in Workers :
    /\ []<><<Dequeue(w)>>_vars
    /\ (wrk[w].pc = "sleep" /\ wrk[w].secs = ERROR_RETRY_DELAY_SECS)
         ~> (wrk[w].pc = "dequeue")
    /\ (wrk[w].pc \in {"send", "delete"}) ~> (wrk[w].pc = "dequeue")

\* Every storage error of the behaviour has happened, and a worker has since
\* completed an item that was claimed a second time.
C33_Witness ==
  \E w \in Workers :
    /\ faults = MaxFaults
    /\ wrk[w].did # <<>>
    /\ claims[wrk[w].did[1]] = 2
    /\ wrk[w].did[1] \notin queue

\* C34: when the recipient of an item with a valid address has no subscription
\* token (the subscriber was deleted after the enqueue), try_execute_task
\* still invokes send once, with the issue's content as stored and no footer,
\* then deletes the row, commits and reports TaskCompleted.
C34_MissingTokenStillSends ==
  [][\A w \in Workers :
       LET it == wrk[w].item IN
       /\ (Deliver(w) /\ ValidEmail(it[2]) /\ subs[it[2]] = "absent")
            => /\ sends'[it] = CountUp(sends[it])
               /\ \A o \in Items \ {it} : sends'[o] = sends[o]
               /\ wrk'[w].pc = "delete"
               /\ wrk'[w].sent \in {"ok", "failed"}
               /\ wrk'[w].mail.recipient = it[2]
               /\ wrk'[w].mail.subject = IssueContent(it[1]).title
               /\ wrk'[w].mail.html_content = IssueContent(it[1]).html_content
               /\ wrk'[w].mail.text_content = IssueContent(it[1]).text_content
       /\ (DeleteTask(w) /\ wrk[w].mail # NoMail)
            => /\ it \in queue /\ it \notin queue'
               /\ wrk'[w].pc = "dequeue"
               /\ wrk'[w].did = <<it, wrk[w].sent>>]_vars

\* The subscriber was deleted after the issue was enqueued for them; the
\* worker has sent the issue to them once, as stored, and is about to delete
\* the row.
C34_Witness ==
  \E it \in Items :
    /\ wrk[1].pc = "delete" /\ wrk[1].item = it /\ wrk[1].sent = "ok"
    /\ ValidEmail(it[2]) /\ subs[it[2]] = "absent"
    /\ sends[it] = 1
    /\ wrk[1].mail.html_content = IssueContent(it[1]).html_content
    /\ wrk[1].mail.text_content = IssueContent(it[1]).text_content

\* C35: every row visible in the queue references an issue that exists, the
\* one committed by the request that enqueued the row; issues are never
\* deleted, get_issue on a selected row always finds its issue, and the email
\* built for the row carries that issue's title.
C35_PendingItemsHaveIssue ==
  /\ [][issues \subseteq issues']_vars
  /\ [](\A it \in queue :
          it[1] \in issues /\ req[it[1]].out = "committed")
  /\ [](\A w \in Workers :
          /\ wrk[w].pc = "send"
               => (wrk[w].item[1] \in issues /\ ENABLED Deliver(w))
          /\ wrk[w].mail # NoMail
               => wrk[w].mail.subject = IssueContent(wrk[w].item[1]).title)

\* Two issues are committed, a row of each is visible in the queue, and the
\* worker has loaded the issue of the row it holds.
C35_Witness ==
  \E r1, r2 \in Reqs :
    /\ r1 # r2 /\ {r1, r2} \subseteq issues
    /\ wrk[1].item = <<r1, "a@x.com">> /\ wrk[1].pc = "delete"
    /\ wrk[1].mail.subject = IssueContent(r1).title
    /\ <<r2, "a@x.com">> \in queue

\* C36: send is invoked for (issue, recipient) only after the publish
\* transaction that enqueued the row has committed: a worker never holds or
\* sends a row of a request that has not committed, and a request that was
\* rolled back never has a row claimed or a send made for it.
C36_SendsOnlyAfterCommit ==
  /\ [][\A w \in Workers :
          (Deliver(w) /\ sends' # sends)
            => /\ req[wrk[w].item[1]].out = "committed"
               /\ wrk[w].item[2] \in req[wrk[w].item[1]].enq
               /\ wrk[w].item \in queue]_vars
  /\ [](\A r \in Reqs, e \in Emails :
          req[r].out # "committed"
            => /\ sends[<<r, e>>] = 0 /\ claims[<<r, e>>] = 0
               /\ \A w \in Workers : wrk[w].item # <<r, e>>)

\* One request was rolled back after its business write and nothing was sent
\* for it; the other committed and its recipient has been sent to.
C36_Witness ==
  \E r1, r2 \in Reqs :
    /\ req[r1].out = "error" /\ "a@x.com" \in req[r1].enq
    /\ sends[<<r1, "a@x.com">>] = 0
    /\ req[r2].out = "committed" /\ sends[<<r2, "a@x.com">>] = 1

\* C37: the publish request never sends: no step of a request, from its start
\* to the commit of save_response or its rollback, changes the count of sends,
\* the claims or a worker, and at the commit every row the request enqueued is
\* in the queue, unlocked and not sent to, whatever the workers are doing.
C37_RequestNeverSends ==
  [][\A r \in Reqs :
       /\ (StartPublish(r) \/ RequestStep(r))
            => (sends' = sends /\ claims' = claims /\ wrk' = wrk)
       /\ Finalize(r)
            => \A e \in req[r].enq :
                 /\ <<r, e>> \in queue' \ Locked'
                 /\ sends'[<<r, e>>] = 0]_vars

\* A request has committed and got its response while its row is pending and
\* not sent to; one worker sleeps on the empty queue it found before, the
\* other is in the middle of another request's row.
C37_Witness ==
  \E r1, r2 \in Reqs :
    /\ r1 # r2
    /\ req[r1].out = "committed" /\ req[r1].got # NoResp
    /\ <<r1, "a@x.com">> \in queue \ Locked
    /\ sends[<<r1, "a@x.com">>] = 0
    /\ wrk[1].pc = "sleep"
    /\ wrk[2].pc = "delete" /\ wrk[2].item[1] = r2

====
